---- MODULE Spec2Model ----
(***************************************************************************)
(* The Yarn constraint rules of the monorepo: yarn.config.cjs and the      *)
(* second constraints file (unnamed/part_000).  A run of `constraints`     *)
(* reads a snapshot of the project (workspaces, manifests, dependencies)   *)
(* and stages effects (set / update / delete / error); an external commit  *)
(* step applies them.                                                      *)
(***************************************************************************)
EXTENDS Integers, Sequences, FiniteSets, TLC

VARIABLES
    config,         \* which constraints file is evaluated
    workspaces,     \* Yarn.workspaces(): sequence of [cwd, ident, manifest, bundles]
    dependencies,   \* Yarn.dependencies(): sequence of [workspace, ident, range, type]
    template,       \* ./template-package.json on disk: [exists, json]
    fields,         \* customPackageFields, once loaded
    staged,         \* the effects staged so far in this run, in call order
    pc,             \* "load" | "rules" | "done" | "thrown"
    pos,            \* index (in the rule list) of the last rule that ran, 0 if none
    pass,           \* 1 for the first run, 2 for the run after the commit
    thrown          \* the exception that ended the run, "" if none

vars == <<config, workspaces, dependencies, template, fields, staged, pc, pos, pass, thrown>>

snapshot == <<workspaces, dependencies>>

----------------------------------------------------------------------------
\* JavaScript values, as far as the rules look into them.  `s` is the JSON
\* text of a primitive, an array or a nested object; `sub` is the mapping of
\* a top-level object, the only kind the rules iterate over.

NoSub == [x \in {} |-> x]

Str(x) == [kind |-> "string", s |-> x, sub |-> NoSub]
Arr(x) == [kind |-> "array", s |-> x, sub |-> NoSub]
Nested(x) == [kind |-> "object", s |-> x, sub |-> NoSub]
Obj(m) == [kind |-> "object", s |-> "", sub |-> m]
Null == [kind |-> "null", s |-> "null", sub |-> NoSub]
Undefined == [kind |-> "undefined", s |-> "", sub |-> NoSub]

\* typeof value === "object" && !Array.isArray(value) && value !== null
IsPlainObject(value) ==
    /\ value.kind \in {"object", "array", "null"}
    /\ value.kind # "array"
    /\ value # Null

\* a === b, for a value `a` of a manifest and a value `b` parsed from the
\* template file: two objects (arrays included) are equal only when they are
\* the same object, and these never are.
StrictEqual(a, b) ==
    /\ a.kind \notin {"object", "array"}
    /\ b.kind \notin {"object", "array"}
    /\ a = b

\* manifest[field]
Get(manifest, field) ==
    IF field \in DOMAIN manifest THEN manifest[field] ELSE Undefined

\* manifest[field]?.[subField]
GetSub(manifest, field, subField) ==
    LET cur == Get(manifest, field) IN
    IF cur.kind = "object" /\ subField \in DOMAIN cur.sub
    THEN cur.sub[subField]
    ELSE Undefined

\* Object.entries order: the keys of a mapping, in the order of `names`.
Keys(m, names) == SelectSeq(names, LAMBDA k : k \in DOMAIN m)

RECURSIVE Flatten(_)
Flatten(ss) == IF ss = <<>> THEN <<>> ELSE Head(ss) \o Flatten(Tail(ss))

Range(seq) == {seq[i] : i \in DOMAIN seq}

----------------------------------------------------------------------------
\* Staged effects.  `rule` records the rule function that made the call.

SetEffect(rule, cwd, path, value) ==
    [kind |-> "set", rule |-> rule, ws |-> cwd, dep |-> 0, path |-> path,
     val |-> value, range |-> "", msg |-> "", arg |-> ""]

UpdateEffect(rule, i, range) ==
    [kind |-> "update", rule |-> rule, ws |-> "", dep |-> i, path |-> <<>>,
     val |-> Undefined, range |-> range, msg |-> "", arg |-> ""]

DeleteEffect(rule, i) ==
    [kind |-> "delete", rule |-> rule, ws |-> "", dep |-> i, path |-> <<>>,
     val |-> Undefined, range |-> "", msg |-> "", arg |-> ""]

WorkspaceError(rule, cwd, msg, arg) ==
    [kind |-> "error", rule |-> rule, ws |-> cwd, dep |-> 0, path |-> <<>>,
     val |-> Undefined, range |-> "", msg |-> msg, arg |-> arg]

DependencyError(rule, i, msg, arg) ==
    [kind |-> "error", rule |-> rule, ws |-> "", dep |-> i, path |-> <<>>,
     val |-> Undefined, range |-> "", msg |-> msg, arg |-> arg]

----------------------------------------------------------------------------
\* Lookups of the Yarn context.

\* Yarn.workspace({ ident }): whether some workspace has this ident
HasWorkspace(ident) == \E i \in DOMAIN workspaces : workspaces[i].ident = ident

\* Yarn.dependencies({ ident }): the indices of the dependencies with this
\* ident, in order
DependenciesOf(ident) ==
    SelectSeq([i \in DOMAIN dependencies |-> i],
              LAMBDA i : dependencies[i].ident = ident)

----------------------------------------------------------------------------
\* yarn.config.cjs

FieldNames == <<"license", "publishConfig">>
SubFieldNames == <<"access", "bin", "tag">>

\* the body of the loop with an existence test in place of the comparison
FieldEffectsAbsentOnly(workspace, flds) ==
    LET rule == "enforceFieldsFromCustomPackage"
        keys == Keys(flds, FieldNames)
        ForField(field) ==
            LET value == flds[field] IN
            IF IsPlainObject(value)
            THEN LET subKeys == Keys(value.sub, SubFieldNames)
                     ForSub(subField) ==
                        IF GetSub(workspace.manifest, field, subField) = Undefined
                        THEN <<SetEffect(rule, workspace.cwd,
                                         <<field, subField>>, value.sub[subField])>>
                        ELSE <<>>
                 IN  Flatten([j \in 1..Len(subKeys) |-> ForSub(subKeys[j])])
            ELSE IF Get(workspace.manifest, field) = Undefined
                 THEN <<SetEffect(rule, workspace.cwd, <<field>>, value)>>
                 ELSE <<>>
    IN  Flatten([i \in 1..Len(keys) |-> ForField(keys[i])])

\* the body of the loop without the comparison
FieldEffectsNoGuard(workspace, flds) ==
    LET rule == "enforceFieldsFromCustomPackage"
        keys == Keys(flds, FieldNames)
        ForField(field) ==
            LET value == flds[field] IN
            IF IsPlainObject(value)
            THEN LET subKeys == Keys(value.sub, SubFieldNames) IN
                 [j \in 1..Len(subKeys) |->
                    SetEffect(rule, workspace.cwd, <<field, subKeys[j]>>,
                              value.sub[subKeys[j]])]
            ELSE <<SetEffect(rule, workspace.cwd, <<field>>, value)>>
    IN  Flatten([i \in 1..Len(keys) |-> ForField(keys[i])])

\* enforceFieldsFromCustomPackage, the body of the loop for one workspace
FieldEffects(workspace, flds) ==
    LET rule == "enforceFieldsFromCustomPackage"
        keys == Keys(flds, FieldNames)
        ForField(field) ==
            LET value == flds[field] IN
            IF IsPlainObject(value)
            THEN LET subKeys == Keys(value.sub, SubFieldNames)
                     ForSub(subField) ==
                        LET subValue == value.sub[subField]
                            currentSubValue ==
                                GetSub(workspace.manifest, field, subField)
                        IN  IF ~StrictEqual(currentSubValue, subValue)
                            THEN <<SetEffect(rule, workspace.cwd,
                                             <<field, subField>>, subValue)>>
                            ELSE <<>>
                 IN  Flatten([j \in 1..Len(subKeys) |-> ForSub(subKeys[j])])
            ELSE IF ~StrictEqual(Get(workspace.manifest, field), value)
                 THEN <<SetEffect(rule, workspace.cwd, <<field>>, value)>>
                 ELSE <<>>
    IN  Flatten([i \in 1..Len(keys) |-> ForField(keys[i])])

\* the loop over the workspaces without the test for the root
AllFieldEffectsWithRoot(wss, flds) ==
    Flatten([i \in 1..Len(wss) |-> FieldEffects(wss[i], flds)])

\* enforceFieldsFromCustomPackage, the loop over the workspaces
AllFieldEffects(wss, flds) ==
    Flatten([i \in 1..Len(wss) |->
        IF wss[i].cwd = "." THEN <<>> ELSE FieldEffects(wss[i], flds)])

IGNORE_CONSISTENT_DEPENDENCIES_FOR == {".", "packages/docusaurus"}

\* the inner loop left after its first update
ConsistencyEffectsFirstOnly(i) ==
    LET rule == "enforceConsistentDependenciesAcrossTheProject"
        dependency == dependencies[i]
        others == DependenciesOf(dependency.ident)
        kept == SelectSeq(others, LAMBDA o :
                    /\ dependencies[o].workspace
                         \notin IGNORE_CONSISTENT_DEPENDENCIES_FOR
                    /\ dependencies[o].type # "peerDependencies"
                    /\ ~ (/\ \/ dependency.type = "devDependencies"
                             \/ dependencies[o].type = "devDependencies"
                          /\ HasWorkspace(dependencies[o].ident)))
    IN  IF kept = <<>> THEN <<>>
        ELSE <<UpdateEffect(rule, i, dependencies[kept[1]].range)>>

\* enforceConsistentDependenciesAcrossTheProject, the inner loop for one
\* dependency
ConsistencyEffects(i) ==
    LET rule == "enforceConsistentDependenciesAcrossTheProject"
        dependency == dependencies[i]
        others == DependenciesOf(dependency.ident)
        ForOther(o) ==
            LET otherDependency == dependencies[o] IN
            IF otherDependency.workspace \in IGNORE_CONSISTENT_DEPENDENCIES_FOR
            THEN <<>>
            ELSE IF otherDependency.type = "peerDependencies"
            THEN <<>>
            ELSE IF /\ \/ dependency.type = "devDependencies"
                       \/ otherDependency.type = "devDependencies"
                    /\ HasWorkspace(otherDependency.ident)
            THEN <<>>
            ELSE <<UpdateEffect(rule, i, otherDependency.range)>>
    IN  Flatten([k \in 1..Len(others) |-> ForOther(others[k])])

\* enforceConsistentDependenciesAcrossTheProject, the outer loop
AllConsistencyEffects ==
    Flatten([i \in 1..Len(dependencies) |->
        IF dependencies[i].workspace \in IGNORE_CONSISTENT_DEPENDENCIES_FOR
        THEN <<>>
        ELSE IF dependencies[i].type = "peerDependencies"
        THEN <<>>
        ELSE ConsistencyEffects(i)])

\* forbidDependency(ctx, ident, explanation)
ForbidDependencyEffects(ident, explanation) ==
    LET ds == DependenciesOf(ident) IN
    [k \in 1..Len(ds) |->
        DependencyError("forbidDependency", ds[k], explanation, "")]

\* workspace.ident?.startsWith(`@yarnpkg/plugin-`)
IsPluginIdent(ident) == ident \in {"@yarnpkg/plugin-git", "@yarnpkg/plugin-npm"}

\* !workspace.manifest.scripts?.[`update-local`]
Truthy(value) ==
    /\ value.kind \notin {"undefined", "null"}
    /\ ~(value.kind = "string" /\ value.s = "")

\* enforceUpdateLocalScripts, the loop, given the cli workspace
UpdateLocalEffects(cli) ==
    Flatten([i \in 1..Len(workspaces) |->
        LET workspace == workspaces[i] IN
        IF ~IsPluginIdent(workspace.ident) THEN <<>>
        ELSE IF workspace.ident \in cli.bundles.standard THEN <<>>
        ELSE IF ~Truthy(GetSub(workspace.manifest, "scripts", "update-local"))
        THEN <<WorkspaceError("enforceUpdateLocalScripts", workspace.cwd,
                   "This workspace is missing an update-local script", "")>>
        ELSE <<>>])

----------------------------------------------------------------------------
\* The second constraints file (unnamed/part_000)

requiredWorkspacesFields == <<"name", "version", "author", "license", "description">>
requiredScripts == <<"build", "start", "lint">>
forbiddenDependencies == <<"yup", "lodash", "vega">>
allowedRanges == [ident \in {"expo"} |-> "~50.0.0"]
AllowedIdents == <<"expo">>

\* the inner loop left after its first error
RequiredFieldErrorsFirstOnly(requiredFields) ==
    Flatten([i \in 1..Len(workspaces) |->
        LET existingKeys == DOMAIN workspaces[i].manifest
            missing == SelectSeq(requiredFields,
                                 LAMBDA field : field \notin existingKeys)
        IN  IF missing = <<>> THEN <<>>
            ELSE <<WorkspaceError("validatePresenceOfRequiredFields",
                      workspaces[i].cwd, "Missing required field", missing[1])>>])

\* validatePresenceOfRequiredFields
RequiredFieldErrors(requiredFields) ==
    Flatten([i \in 1..Len(workspaces) |->
        LET existingKeys == DOMAIN workspaces[i].manifest IN
        Flatten([k \in 1..Len(requiredFields) |->
            IF requiredFields[k] \notin existingKeys
            THEN <<WorkspaceError("validatePresenceOfRequiredFields",
                      workspaces[i].cwd, "Missing required field",
                      requiredFields[k])>>
            ELSE <<>>])])

\* validatePresenceOfRequiredScripts: the `return` ends the whole function at
\* the first workspace without a scripts field
RECURSIVE RequiredScriptErrors(_, _)
RequiredScriptErrors(wss, scripts) ==
    IF wss = <<>> THEN <<>>
    ELSE LET workspace == Head(wss) IN
         IF Get(workspace.manifest, "scripts") = Undefined
         THEN <<WorkspaceError("validatePresenceOfRequiredScripts",
                   workspace.cwd, "Missing required field 'scripts'", "")>>
         ELSE LET existingScripts == DOMAIN workspace.manifest["scripts"].sub IN
              Flatten([k \in 1..Len(scripts) |->
                  IF scripts[k] \notin existingScripts
                  THEN <<WorkspaceError("validatePresenceOfRequiredScripts",
                            workspace.cwd, "Missing required script",
                            scripts[k])>>
                  ELSE <<>>])
              \o RequiredScriptErrors(Tail(wss), scripts)

\* the loop with peer dependencies left out
DependencyRangeEffectsNoPeers(ranges, idents) ==
    Flatten([k \in 1..Len(idents) |->
        LET ds == DependenciesOf(idents[k]) IN
        Flatten([j \in 1..Len(ds) |->
            IF dependencies[ds[j]].type = "peerDependencies"
            THEN <<>>
            ELSE <<UpdateEffect("enforceDependencyRanges", ds[j],
                                ranges[idents[k]])>>])])

\* enforceDependencyRanges
DependencyRangeEffects(ranges, idents) ==
    Flatten([k \in 1..Len(idents) |->
        LET ds == DependenciesOf(idents[k]) IN
        [j \in 1..Len(ds) |->
            UpdateEffect("enforceDependencyRanges", ds[j], ranges[idents[k]])]])

\* the loop with the ident filter lost
ForbidDependenciesAll(forbidden) ==
    [i \in 1..Len(dependencies) |-> DeleteEffect("forbidDependencies", i)]

\* forbidDependencies
ForbidDependenciesEffects(forbidden) ==
    Flatten([k \in 1..Len(forbidden) |->
        LET ds == DependenciesOf(forbidden[k]) IN
        [j \in 1..Len(ds) |-> DeleteEffect("forbidDependencies", ds[j])]])

----------------------------------------------------------------------------
\* The external commit step: the staged sets, updates and deletes applied to
\* the project.

Extend(m, k, v) == [x \in DOMAIN m \cup {k} |-> IF x = k THEN v ELSE m[x]]

ApplySet(manifest, path, value) ==
    IF Len(path) = 1
    THEN Extend(manifest, path[1], value)
    ELSE LET cur == Get(manifest, path[1])
             base == IF cur.kind = "object" THEN cur.sub ELSE NoSub
         IN  Extend(manifest, path[1], Obj(Extend(base, path[2], value)))

RECURSIVE ApplySets(_, _, _)
ApplySets(manifest, cwd, effects) ==
    IF effects = <<>> THEN manifest
    ELSE LET e == Head(effects)
             next == IF e.kind = "set" /\ e.ws = cwd
                     THEN ApplySet(manifest, e.path, e.val)
                     ELSE manifest
         IN  ApplySets(next, cwd, Tail(effects))

CommittedWorkspaces(wss, effects) ==
    [i \in DOMAIN wss |->
        [wss[i] EXCEPT !.manifest = ApplySets(wss[i].manifest, wss[i].cwd, effects)]]

RECURSIVE ApplyUpdates(_, _)
ApplyUpdates(deps, effects) ==
    IF effects = <<>> THEN deps
    ELSE LET e == Head(effects)
             next == IF e.kind = "update"
                     THEN [deps EXCEPT ![e.dep].range = e.range]
                     ELSE deps
         IN  ApplyUpdates(next, Tail(effects))

CommittedDependencies(deps, effects) ==
    LET updated == ApplyUpdates(deps, effects)
        deleted == {e.dep : e \in {x \in Range(effects) : x.kind = "delete"}}
        keep == SelectSeq([i \in DOMAIN deps |-> i], LAMBDA i : i \notin deleted)
    IN  [k \in 1..Len(keep) |-> updated[keep[k]]]

----------------------------------------------------------------------------
\* The two `constraints` functions: the rule calls in source order.  A call
\* that is commented out in the source may or may not be part of a run; a
\* call that is not commented out always is.

Rules ==
    IF config = "yarn.config.cjs"
    THEN <<"enforceFieldsFromCustomPackage",
           "enforceConsistentDependenciesAcrossTheProject",
           "forbidDependency",
           "enforceUpdateLocalScripts">>
    ELSE <<"validatePresenceOfRequiredFields",
           "validatePresenceOfRequiredScripts",
           "forbidDependencies",
           "enforceDependencyRanges">>

Active == {"enforceFieldsFromCustomPackage", "enforceDependencyRanges"}

\* rule `r` is the next call of the run: it comes after the last rule that
\* ran, and no active call lies in between
IsNext(r) ==
    /\ pc = "rules"
    /\ \E i \in (pos + 1)..Len(Rules) :
        /\ Rules[i] = r
        /\ \A j \in (pos + 1)..(i - 1) : Rules[j] \notin Active

IndexOf(r) == CHOOSE i \in 1..Len(Rules) : Rules[i] = r

Ran(r, effects) ==
    /\ IsNext(r)
    /\ staged' = staged \o effects
    /\ pos' = IndexOf(r)
    /\ UNCHANGED <<config, workspaces, dependencies, template, fields, pc, pass, thrown>>

Threw(r, error) ==
    /\ IsNext(r)
    /\ pc' = "thrown"
    /\ thrown' = error
    /\ pos' = IndexOf(r)
    /\ UNCHANGED <<config, workspaces, dependencies, template, fields, staged, pass>>

LoadCustomPackageFields ==
    /\ pc = "load"
    /\ IF ~template.exists
       THEN /\ pc' = "thrown"
            /\ thrown' = "Custom package.json not found"
            /\ UNCHANGED fields
       ELSE /\ fields' = template.json
            /\ pc' = "rules"
            /\ UNCHANGED thrown
    /\ UNCHANGED <<config, workspaces, dependencies, template, staged, pos, pass>>

\* the rule writing the manifests itself instead of staging sets
EnforceFieldsInPlace ==
    /\ IsNext("enforceFieldsFromCustomPackage")
    /\ workspaces' = CommittedWorkspaces(workspaces, AllFieldEffects(workspaces, fields))
    /\ pos' = IndexOf("enforceFieldsFromCustomPackage")
    /\ UNCHANGED <<config, dependencies, template, fields, staged, pc, pass, thrown>>

EnforceFieldsFromCustomPackage ==
    Ran("enforceFieldsFromCustomPackage", AllFieldEffects(workspaces, fields))

EnforceConsistentDependenciesAcrossTheProject ==
    Ran("enforceConsistentDependenciesAcrossTheProject", AllConsistencyEffects)

ForbidDependency ==
    Ran("forbidDependency",
        ForbidDependencyEffects("inquirer",
            "Don't depend on inquirer - we use enquirer instead"))

\* the assertion made after the loop instead of before it
EnforceUpdateLocalScriptsLateAssertion ==
    LET r == "enforceUpdateLocalScripts"
        found == {i \in DOMAIN workspaces : workspaces[i].ident = "@yarnpkg/cli"}
        cli == IF found = {}
               THEN [bundles |-> [defined |-> FALSE, standard |-> {}]]
               ELSE workspaces[CHOOSE i \in found : \A j \in found : i <= j]
    IN  IF found = {}
        THEN /\ IsNext(r)
             /\ staged' = staged \o UpdateLocalEffects(cli)
             /\ pc' = "thrown"
             /\ thrown' = "Assertion failed: We need the @yarnpkg/cli workspace to be present"
             /\ pos' = IndexOf(r)
             /\ UNCHANGED <<config, workspaces, dependencies, template, fields, pass>>
        ELSE Ran(r, UpdateLocalEffects(cli))

EnforceUpdateLocalScripts ==
    LET r == "enforceUpdateLocalScripts"
        found == {i \in DOMAIN workspaces : workspaces[i].ident = "@yarnpkg/cli"}
    IN  IF found = {}
        THEN Threw(r, "Assertion failed: We need the @yarnpkg/cli workspace to be present")
        ELSE LET cli == workspaces[CHOOSE i \in found : \A j \in found : i <= j] IN
             IF /\ ~cli.bundles.defined
                /\ \E i \in DOMAIN workspaces : IsPluginIdent(workspaces[i].ident)
             THEN Threw(r, "TypeError")
             ELSE Ran(r, UpdateLocalEffects(cli))

ValidatePresenceOfRequiredFields ==
    Ran("validatePresenceOfRequiredFields",
        RequiredFieldErrors(requiredWorkspacesFields))

ValidatePresenceOfRequiredScripts ==
    Ran("validatePresenceOfRequiredScripts",
        RequiredScriptErrors(workspaces, requiredScripts))

ForbidDependencies ==
    Ran("forbidDependencies", ForbidDependenciesEffects(forbiddenDependencies))

EnforceDependencyRanges ==
    Ran("enforceDependencyRanges",
        DependencyRangeEffects(allowedRanges, AllowedIdents))

\* `constraints` returns
Finish ==
    /\ pc = "rules"
    /\ \A j \in (pos + 1)..Len(Rules) : Rules[j] \notin Active
    /\ pc' = "done"
    /\ UNCHANGED <<config, workspaces, dependencies, template, fields, staged, pos, pass, thrown>>

\* The external tool applies the staged changes of the first run and
\* evaluates the constraints again.
Commit ==
    /\ pc = "done"
    /\ pass = 1
    /\ workspaces' = CommittedWorkspaces(workspaces, staged)
    /\ dependencies' = CommittedDependencies(dependencies, staged)
    /\ staged' = <<>>
    /\ fields' = NoSub
    /\ pc' = IF config = "yarn.config.cjs" THEN "load" ELSE "rules"
    /\ pos' = 0
    /\ pass' = 2
    /\ UNCHANGED <<config, template, thrown>>

----------------------------------------------------------------------------
\* The projects and templates the rules are evaluated on.

MaxPackages == 1
MaxDeps == 2

NoBundles == [defined |-> FALSE, standard |-> {}]

Workspace(cwd, ident, manifest) ==
    [cwd |-> cwd, ident |-> ident, manifest |-> manifest, bundles |-> NoBundles]

Name(x) == [f \in {"name"} |-> Str(x)]

PackageCwds == <<"packages/core-components", "packages/app", "packages/docs">>
PackageIdents == <<"core-components", "app", "docs">>

Root == Workspace(".", "micro-app-monorepo", Name("micro-app-monorepo"))

\* values a template may give a field, and values a manifest may hold there
TemplateValues ==
    {Str("MIT"), Null, Arr("[lib]"),
     Obj([f \in {"access"} |-> Str("public")]),
     Obj([f \in {"access", "bin"} |->
            IF f = "access" THEN Str("public") ELSE Nested("{cli:bin.js}")])}

ManifestValues ==
    {Str("MIT"), Str("ISC"), Arr("[lib]"),
     Obj([f \in {"access"} |-> Str("public")]),
     Obj([f \in {"access", "tag"} |->
            IF f = "access" THEN Str("restricted") ELSE Str("next")])}

Mappings(names, values) ==
    UNION {[d -> values] : d \in SUBSET names}

Templates == Mappings(Range(FieldNames), TemplateValues)

PackageManifests(k) ==
    {Name(PackageIdents[k]) @@ m : m \in Mappings(Range(FieldNames), ManifestValues)}

\* the root workspace followed by n packages
Projects(n) ==
    {<<Root>> \o [k \in 1..n |-> Workspace(PackageCwds[k], PackageIdents[k], ms[k])] :
        ms \in {f \in [1..n -> UNION {PackageManifests(k) : k \in 1..n}] :
                    \A k \in 1..n : f[k] \in PackageManifests(k)}}

PlainProject ==
    <<Root,
      Workspace("packages/core-components", "core-components", Name("core-components")),
      Workspace("packages/app", "app", Name("app")),
      Workspace("packages/docusaurus", "docusaurus", Name("docusaurus"))>>

DependencyTypes == {"dependencies", "devDependencies", "peerDependencies"}

\* the dependency lists of at most n entries, no two of them the same
\* dependency (workspace, ident and type) of the project
DependencyLists(cwds, idents, ranges, n) ==
    LET U == [workspace : cwds, ident : idents, range : ranges, type : DependencyTypes]
        Same(a, b) == /\ a.workspace = b.workspace
                      /\ a.ident = b.ident
                      /\ a.type = b.type
    IN  UNION {{s \in [1..k -> U] :
                    \A i, j \in 1..k : i # j => ~Same(s[i], s[j])} : k \in 0..n}

Start(cfg) ==
    /\ config = cfg
    /\ fields = NoSub
    /\ staged = <<>>
    /\ pc = IF cfg = "yarn.config.cjs" THEN "load" ELSE "rules"
    /\ pos = 0
    /\ pass = 1
    /\ thrown = ""

\* yarn.config.cjs on projects whose manifests vary, for every template
InitFields ==
    /\ Start("yarn.config.cjs")
    /\ workspaces \in UNION {Projects(n) : n \in 1..MaxPackages}
    /\ dependencies = <<>>
    /\ template \in {[exists |-> TRUE, json |-> j] : j \in Templates}

\* yarn.config.cjs on projects whose dependencies vary
InitDependenciesA ==
    /\ Start("yarn.config.cjs")
    /\ workspaces = PlainProject
    /\ dependencies \in DependencyLists(
            {"packages/core-components", "packages/app", "packages/docusaurus"},
            {"expo", "core-components"}, {"49.0.0", "~50.0.0"}, MaxDeps)
    /\ template = [exists |-> TRUE, json |-> [f \in {"license"} |-> Str("MIT")]]

\* yarn.config.cjs with and without the template file, the @yarnpkg/cli
\* workspace and a plugin workspace
InitCompanion ==
    /\ Start("yarn.config.cjs")
    /\ \E cli \in SUBSET {[defined |-> FALSE, standard |-> {}],
                          [defined |-> TRUE, standard |-> {}],
                          [defined |-> TRUE, standard |-> {"@yarnpkg/plugin-git"}]},
          plugin \in SUBSET {Name("@yarnpkg/plugin-git"),
                             Name("@yarnpkg/plugin-git") @@
                                [f \in {"scripts"} |->
                                    Obj([g \in {"update-local"} |-> Str("run build")])]} :
        /\ Cardinality(cli) <= 1
        /\ Cardinality(plugin) <= 1
        /\ workspaces =
              <<Root, Workspace("packages/app", "app", Name("app"))>>
              \o (IF plugin = {} THEN <<>>
                  ELSE <<Workspace("packages/plugin-git", "@yarnpkg/plugin-git",
                                   CHOOSE m \in plugin : TRUE)>>)
              \o (IF cli = {} THEN <<>>
                  ELSE <<[Workspace("packages/cli", "@yarnpkg/cli", Name("@yarnpkg/cli"))
                            EXCEPT !.bundles = CHOOSE b \in cli : TRUE]>>)
    /\ dependencies = <<>>
    /\ template \in {[exists |-> FALSE, json |-> NoSub],
                     [exists |-> TRUE, json |-> [f \in {"license"} |-> Str("MIT")]]}

\* the second constraints file on projects whose manifests lack some of the
\* required fields
InitRequiredFields ==
    /\ Start("part_000")
    /\ \E keys \in [1..2 -> SUBSET Range(requiredWorkspacesFields)] :
        workspaces = [k \in 1..2 |->
            Workspace(<<".", "packages/app">>[k], <<"micro-app-monorepo", "app">>[k],
                      [f \in keys[k] |-> Str("x")])]
    /\ dependencies = <<>>
    /\ template = [exists |-> FALSE, json |-> NoSub]

\* the second constraints file on projects whose manifests lack the scripts
\* field or some of the required scripts
InitRequiredScripts ==
    /\ Start("part_000")
    /\ \E scripts \in [1..3 -> {Undefined} \cup
                               {Obj([g \in d |-> Str("run")]) :
                                    d \in SUBSET Range(requiredScripts)}] :
        workspaces = [k \in 1..3 |->
            Workspace(PlainProject[k].cwd, PlainProject[k].ident,
                      IF scripts[k] = Undefined
                      THEN PlainProject[k].manifest
                      ELSE PlainProject[k].manifest @@ [f \in {"scripts"} |-> scripts[k]])]
    /\ dependencies = <<>>
    /\ template = [exists |-> FALSE, json |-> NoSub]

\* the second constraints file on projects whose dependencies vary
InitDependenciesB ==
    /\ Start("part_000")
    /\ workspaces = PlainProject
    /\ dependencies \in DependencyLists({".", "packages/app"},
            {"expo", "lodash", "react"}, {"49.0.0", "~50.0.0"}, MaxDeps)
    /\ template = [exists |-> FALSE, json |-> NoSub]

\* either constraints file on projects with forbidden and other dependencies
InitForbidden ==
    /\ \/ Start("yarn.config.cjs")
       \/ Start("part_000")
    /\ workspaces = PlainProject
    /\ dependencies \in DependencyLists({".", "packages/app"},
            {"inquirer", "lodash", "yup", "expo"}, {"1.0.0"}, MaxDeps)
    /\ template = [exists |-> TRUE, json |-> [f \in {"license"} |-> Str("MIT")]]

NextA ==
    \/ LoadCustomPackageFields
    \/ EnforceFieldsFromCustomPackage
    \/ EnforceConsistentDependenciesAcrossTheProject
    \/ ForbidDependency
    \/ EnforceUpdateLocalScripts
    \/ Finish

NextB ==
    \/ ValidatePresenceOfRequiredFields
    \/ ValidatePresenceOfRequiredScripts
    \/ ForbidDependencies
    \/ EnforceDependencyRanges
    \/ Finish

Next ==
    \/ LoadCustomPackageFields
    \/ EnforceFieldsFromCustomPackage
    \/ EnforceConsistentDependenciesAcrossTheProject
    \/ ForbidDependency
    \/ EnforceUpdateLocalScripts
    \/ ValidatePresenceOfRequiredFields
    \/ ValidatePresenceOfRequiredScripts
    \/ ForbidDependencies
    \/ EnforceDependencyRanges
    \/ Finish

NextTwice ==
    \/ LoadCustomPackageFields
    \/ EnforceFieldsFromCustomPackage
    \/ EnforceDependencyRanges
    \/ Finish
    \/ Commit

\* yarn.config.cjs
SpecA == (InitFields \/ InitDependenciesA \/ InitCompanion) /\ [][NextA]_vars

\* the second constraints file
SpecB == (InitRequiredFields \/ InitRequiredScripts \/ InitDependenciesB) /\ [][NextB]_vars

\* both files, on projects with forbidden dependencies
Spec == InitForbidden /\ [][Next]_vars

\* the active rules of both files, run, committed and run again
SpecTwice == (InitFields \/ InitDependenciesB) /\ [][NextTwice]_vars

----------------------------------------------------------------------------
\* What the properties below speak of.

\* `r` is the last rule that ran, and it returned
JustRan(r) == pc \in {"rules", "done"} /\ pos > 0 /\ Rules[pos] = r

StagedBy(r) == SelectSeq(staged, LAMBDA e : e.rule = r)

Count(effects, P(_)) == Len(SelectSeq(effects, P))

\* the ranges staged for dependency i by rule r
StagedRanges(r, i) ==
    {e.range : e \in {x \in Range(StagedBy(r)) : x.kind = "update" /\ x.dep = i}}

\* equality of the JSON documents: what a manifest file holds once written
SameJSON(a, b) == a = b

\* the manifest gives `field` the value the template gives it; for an object
\* of the template, every sub-field it lists
Agrees(manifest, field, value) ==
    IF IsPlainObject(value)
    THEN \A subField \in DOMAIN value.sub :
            SameJSON(GetSub(manifest, field, subField), value.sub[subField])
    ELSE SameJSON(Get(manifest, field), value)

----------------------------------------------------------------------------
\* C1: after enforceDependencyRanges, every dependency whose ident is a key
\* of allowedRanges, in any workspace and of any type, has exactly the
\* configured range staged, whatever its own range; the rule stages no error.
C1_RangesEnforced ==
    JustRan("enforceDependencyRanges") =>
        /\ \A i \in DOMAIN dependencies :
              dependencies[i].ident \in DOMAIN allowedRanges =>
                 StagedRanges("enforceDependencyRanges", i)
                    = {allowedRanges[dependencies[i].ident]}
        /\ \A e \in Range(StagedBy("enforceDependencyRanges")) : e.kind # "error"

\* an expo@49.0.0 peer dependency of the root and an expo dependency of a
\* package, both with ~50.0.0 staged
C1_Witness ==
    /\ JustRan("enforceDependencyRanges")
    /\ \E i, j \in DOMAIN dependencies :
        /\ dependencies[i].ident = "expo" /\ dependencies[j].ident = "expo"
        /\ dependencies[i].range = "49.0.0"
        /\ dependencies[i].type = "peerDependencies"
        /\ dependencies[i].workspace = "."
        /\ dependencies[j].workspace = "packages/app"
        /\ StagedRanges("enforceDependencyRanges", i) = {"~50.0.0"}
        /\ StagedRanges("enforceDependencyRanges", j) = {"~50.0.0"}

----------------------------------------------------------------------------
\* C7: after validatePresenceOfRequiredFields, for every workspace and every
\* required field, the rule has staged exactly one error naming the field if
\* the manifest lacks it and none if it has it; the errors of a workspace are
\* as many as the required fields it lacks.
C7_OneErrorPerMissingField ==
    JustRan("validatePresenceOfRequiredFields") =>
        \A i \in DOMAIN workspaces :
            LET mine == SelectSeq(StagedBy("validatePresenceOfRequiredFields"),
                                  LAMBDA e : e.ws = workspaces[i].cwd)
                missing == {f \in Range(requiredWorkspacesFields) :
                                f \notin DOMAIN workspaces[i].manifest}
            IN  /\ \A f \in Range(requiredWorkspacesFields) :
                      Count(mine, LAMBDA e : /\ e.kind = "error"
                                             /\ e.msg = "Missing required field"
                                             /\ e.arg = f)
                        = IF f \in missing THEN 1 ELSE 0
                /\ Len(mine) = Cardinality(missing)

\* a workspace that lacks two required fields next to one that lacks none
C7_Witness ==
    /\ JustRan("validatePresenceOfRequiredFields")
    /\ \E i, j \in DOMAIN workspaces :
        /\ DOMAIN workspaces[i].manifest = {"name", "version", "description"}
        /\ DOMAIN workspaces[j].manifest = Range(requiredWorkspacesFields)
        /\ Len(StagedBy("validatePresenceOfRequiredFields")) = 2

----------------------------------------------------------------------------
\* C8: after validatePresenceOfRequiredScripts, every workspace that has a
\* scripts mapping, those after a workspace without one included, has an error
\* staged for every required script its scripts lack.
C8_EveryWorkspaceChecked ==
    JustRan("validatePresenceOfRequiredScripts") =>
        \A i \in DOMAIN workspaces :
            Get(workspaces[i].manifest, "scripts") # Undefined =>
                \A s \in Range(requiredScripts) :
                    s \notin DOMAIN workspaces[i].manifest["scripts"].sub =>
                        \E e \in Range(StagedBy("validatePresenceOfRequiredScripts")) :
                            /\ e.kind = "error"
                            /\ e.ws = workspaces[i].cwd
                            /\ e.arg = s

----------------------------------------------------------------------------
\* the identifiers a forbidden-dependency rule is called with
Forbidden(r) ==
    IF r = "forbidDependency" THEN {"inquirer"} ELSE Range(forbiddenDependencies)

\* C6, as claimed: after a forbidden-dependency rule (forbidDependency of
\* yarn.config.cjs or forbidDependencies of the second file), every dependency
\* with a forbidden ident has a deletion staged, and the rule has staged
\* nothing on a dependency whose ident is not forbidden.
C6_DeletesForbidden ==
    \A r \in {"forbidDependency", "forbidDependencies"} :
        JustRan(r) =>
            /\ \A i \in DOMAIN dependencies :
                  dependencies[i].ident \in Forbidden(r) =>
                     \E e \in Range(StagedBy(r)) : e.kind = "delete" /\ e.dep = i
            /\ \A e \in Range(StagedBy(r)) :
                  e.dep > 0 /\ dependencies[e.dep].ident \in Forbidden(r)

\* C6, amended: forbidDependencies stages exactly one deletion for every
\* dependency with a forbidden ident; forbidDependency stages exactly one
\* error carrying the explanation, and no deletion, for every dependency with
\* its ident; neither stages anything on a dependency whose ident is not
\* forbidden.
C6_DeletesOrReports ==
    \A r \in {"forbidDependency", "forbidDependencies"} :
        JustRan(r) =>
            /\ \A i \in DOMAIN dependencies :
                  Count(StagedBy(r), LAMBDA e : e.dep = i)
                    = IF dependencies[i].ident \in Forbidden(r) THEN 1 ELSE 0
            /\ \A e \in Range(StagedBy(r)) :
                  /\ e.dep > 0 /\ dependencies[e.dep].ident \in Forbidden(r)
                  /\ e.kind = IF r = "forbidDependencies" THEN "delete" ELSE "error"
                  /\ r = "forbidDependency" =>
                        e.msg = "Don't depend on inquirer - we use enquirer instead"

\* forbidDependencies ran on a project with a lodash dependency, deleted, and
\* an expo dependency, left alone
C6_Witness ==
    /\ JustRan("forbidDependencies")
    /\ \E i, j \in DOMAIN dependencies :
        /\ dependencies[i].ident = "lodash"
        /\ dependencies[j].ident = "expo"
        /\ StagedBy("forbidDependencies") = <<DeleteEffect("forbidDependencies", i)>>

----------------------------------------------------------------------------
\* a dependency the consistency rule looks at
Considered(i) ==
    /\ dependencies[i].workspace \notin IGNORE_CONSISTENT_DEPENDENCIES_FOR
    /\ dependencies[i].type # "peerDependencies"

Sharing(i) ==
    {o \in DOMAIN dependencies :
        dependencies[o].ident = dependencies[i].ident /\ Considered(o)}

\* the dependencies whose range the rule stages for dependency i
Aligned(i) ==
    {o \in Sharing(i) :
        ~ (/\ "devDependencies" \in {dependencies[i].type, dependencies[o].type}
           /\ HasWorkspace(dependencies[i].ident))}

UpdatesOf(r, i) == Count(StagedBy(r), LAMBDA e : e.kind = "update" /\ e.dep = i)

\* C5, as claimed: after enforceConsistentDependenciesAcrossTheProject, every
\* dependency outside the ignored workspaces and not of peer type has exactly
\* one range staged, the range of the first dependency sharing its ident, so
\* all such dependencies of one ident have the same range staged.
C5_AlignedToFirst ==
    LET r == "enforceConsistentDependenciesAcrossTheProject" IN
    JustRan(r) =>
        \A i \in DOMAIN dependencies :
            Considered(i) =>
                LET first == CHOOSE o \in Sharing(i) : \A q \in Sharing(i) : o <= q IN
                /\ UpdatesOf(r, i) = 1
                /\ StagedRanges(r, i) = {dependencies[first].range}

\* C5, amended: the rule stages for every such dependency one update per
\* dependency sharing its ident (itself included, the ignored workspaces and
\* peer entries excluded, and no pair with a devDependencies entry when the
\* ident names a workspace), to that dependency's range; so the dependencies
\* of one ident that names no workspace all have the same set of ranges
\* staged, a single range only if they agreed already.  Nothing is staged
\* for a dependency of an ignored workspace or of peer type.
C5_AlignedToAll ==
    LET r == "enforceConsistentDependenciesAcrossTheProject" IN
    JustRan(r) =>
        /\ \A i \in DOMAIN dependencies :
              IF Considered(i)
              THEN /\ UpdatesOf(r, i) = Cardinality(Aligned(i))
                   /\ StagedRanges(r, i) = {dependencies[o].range : o \in Aligned(i)}
              ELSE Count(StagedBy(r), LAMBDA e : e.dep = i) = 0
        /\ \A i, j \in DOMAIN dependencies :
              /\ Considered(i) /\ Considered(j)
              /\ dependencies[i].ident = dependencies[j].ident
              /\ ~HasWorkspace(dependencies[i].ident)
              => StagedRanges(r, i) = StagedRanges(r, j)
        /\ \A e \in Range(StagedBy(r)) : e.kind = "update"

\* two packages depend on expo with different ranges: both ranges are staged
\* for each of them
C5_Witness ==
    LET r == "enforceConsistentDependenciesAcrossTheProject" IN
    /\ JustRan(r)
    /\ \E i, j \in DOMAIN dependencies :
        /\ i < j
        /\ Considered(i) /\ Considered(j)
        /\ dependencies[i].ident = "expo" /\ dependencies[j].ident = "expo"
        /\ dependencies[i].range # dependencies[j].range
        /\ StagedRanges(r, i) = {"49.0.0", "~50.0.0"}
        /\ StagedRanges(r, j) = {"49.0.0", "~50.0.0"}

----------------------------------------------------------------------------
\* the manifests once the staged sets are applied
After == CommittedWorkspaces(workspaces, staged)

----------------------------------------------------------------------------
----------------------------------------------------------------------------
NotFound == "Custom package.json not found"
NoCli == "Assertion failed: We need the @yarnpkg/cli workspace to be present"

\* C4, as claimed: a run that ends with the error of a missing template or of
\* a missing @yarnpkg/cli workspace has staged nothing: it was aborted before
\* any rule ran.
C4_NothingStagedWhenThrown ==
    pc = "thrown" /\ thrown \in {NotFound, NoCli} => staged = <<>>

\* C4, amended: a missing template aborts the run before any rule runs, with
\* nothing staged; a missing @yarnpkg/cli workspace aborts it inside
\* enforceUpdateLocalScripts, before that rule stages anything, and what the
\* rules before it staged stays staged.
C4_NothingStagedByTheThrower ==
    /\ pc = "thrown" /\ thrown = NotFound => staged = <<>> /\ pos = 0
    /\ pc = "thrown" /\ thrown = NoCli =>
          /\ Rules[pos] = "enforceUpdateLocalScripts"
          /\ StagedBy("enforceUpdateLocalScripts") = <<>>
          /\ StagedBy("enforceFieldsFromCustomPackage")
                = AllFieldEffects(workspaces, fields)

\* the assertion fails in a project with a plugin workspace, after
\* enforceFieldsFromCustomPackage has staged sets
C4_Witness ==
    /\ pc = "thrown"
    /\ thrown = NoCli
    /\ \E i \in DOMAIN workspaces : IsPluginIdent(workspaces[i].ident)
    /\ staged # <<>>
    /\ \A e \in Range(staged) : e.rule = "enforceFieldsFromCustomPackage"

----------------------------------------------------------------------------
\* what a rule stages when it is the first to run
OnItsOwn(r) ==
    CASE r = "enforceFieldsFromCustomPackage" -> AllFieldEffects(workspaces, fields)
      [] r = "enforceConsistentDependenciesAcrossTheProject" -> AllConsistencyEffects
      [] r = "forbidDependency" ->
            ForbidDependencyEffects("inquirer",
                "Don't depend on inquirer - we use enquirer instead")
      [] r = "enforceUpdateLocalScripts" ->
            IF \E i \in DOMAIN workspaces : workspaces[i].ident = "@yarnpkg/cli"
            THEN UpdateLocalEffects(
                    workspaces[CHOOSE i \in DOMAIN workspaces :
                                  workspaces[i].ident = "@yarnpkg/cli"])
            ELSE <<>>
      [] r = "validatePresenceOfRequiredFields" ->
            RequiredFieldErrors(requiredWorkspacesFields)
      [] r = "validatePresenceOfRequiredScripts" ->
            RequiredScriptErrors(workspaces, requiredScripts)
      [] r = "forbidDependencies" -> ForbidDependenciesEffects(forbiddenDependencies)
      [] r = "enforceDependencyRanges" ->
            DependencyRangeEffects(allowedRanges, AllowedIdents)

\* C9: no step of a run changes the project it reads (the workspaces, their
\* manifests, the dependencies, their ranges and types); a step only appends
\* to the staged effects, and what a rule appends is what it stages on the
\* project alone, whatever was staged before it.
C9_Advisory ==
    [][ /\ UNCHANGED snapshot
        /\ Len(staged') >= Len(staged)
        /\ SubSeq(staged', 1, Len(staged)) = staged
        /\ \A k \in (Len(staged) + 1)..Len(staged') :
              staged'[k].kind \in {"set", "update", "delete", "error"}
        /\ pos' # pos /\ pc' # "thrown" =>
              SubSeq(staged', Len(staged) + 1, Len(staged')) = OnItsOwn(Rules[pos'])
      ]_vars

\* a finished run in which forbidDependencies and then enforceDependencyRanges
\* staged effects that, applied, would change the dependencies
C9_Witness ==
    /\ pc = "done"
    /\ StagedBy("forbidDependencies") # <<>>
    /\ StagedBy("enforceDependencyRanges") # <<>>
    /\ CommittedDependencies(dependencies, staged) # dependencies

----------------------------------------------------------------------------
\* C2, as claimed: the run after the commit stages nothing, no error and no
\* change, for every template and every project.
C2_SecondRunStagesNothing ==
    pass = 2 /\ pc = "done" => staged = <<>>

\* C2, amended: the run after the commit stages no error and nothing that
\* would change the project: applying what it stages leaves every manifest
\* and every dependency as it is.  What it stages again is an update of every
\* dependency named in allowedRanges to the range it now has, and a set of
\* every template value that is an array or an object below the top level,
\* to the value the manifest now holds.
C2_SecondRunChangesNothing ==
    pass = 2 /\ pc = "done" =>
        /\ \A e \in Range(staged) :
              /\ e.kind \in {"set", "update"}
              /\ e.kind = "update" => e.range = dependencies[e.dep].range
              /\ e.kind = "set" => e.val.kind \in {"array", "object"}
        /\ After = workspaces
        /\ CommittedDependencies(dependencies, staged) = dependencies
        /\ \A i \in DOMAIN dependencies :
              dependencies[i].ident \in DOMAIN allowedRanges =>
                 dependencies[i].range = allowedRanges[dependencies[i].ident]
        /\ config = "yarn.config.cjs" =>
              \A i \in DOMAIN workspaces :
                  workspaces[i].cwd # "." =>
                      \A field \in DOMAIN fields :
                          Agrees(workspaces[i].manifest, field, fields[field])

\* the second run has ended with the set of an array-valued field and of a
\* nested object staged again, and none of the string-valued sub-field
C2_Witness ==
    /\ pass = 2 /\ pc = "done"
    /\ Get(fields, "license") = Arr("[lib]")
    /\ DOMAIN Get(fields, "publishConfig").sub = {"access", "bin"}
    /\ {e.path : e \in Range(staged)} = {<<"license">>, <<"publishConfig", "bin">>}

====
